---- MODULE Spec2Model ----
(***************************************************************************)
(* Maestro's Conductor (src/maestro/maestro.py): construction of the       *)
(* service/container graph from an environment description, selection of   *)
(* containers by name, the dependency closure and ordering, and the        *)
(* lifecycle commands that hand a container sequence to a Play.            *)
(*                                                                         *)
(* One run of the program is one command-line invocation: the environment  *)
(* description is loaded, the Conductor is constructed (Construct), and    *)
(* one operation is carried out on it.                                     *)
(*                                                                         *)
(* entities.Service / entities.Container are not part of the sources at    *)
(* hand; their fields (requires, needed_for, wants_info, containers, ship, *)
(* volumes, ordering by name) are modelled from spec.md sections 3 and 4.  *)
(* Lists, maps and the format arguments of exceptions follow Python 2      *)
(* semantics, the interpreter the module is written for (map() returns a   *)
(* list, line 186; dict.keys() are lists, line 285).                       *)
(***************************************************************************)
EXTENDS Integers, Sequences, FiniteSets, TLC

(***************************************************************************)
(* Bounds of the model.                                                    *)
(***************************************************************************)
\* largest number of declared `requires` edges in an environment description
MaxEdges == 3
\* largest number of names given to an operation
MaxThings == 2
\* largest number of declared `requires` edges where link variables collide
MaxLinkEdges == 2
\* largest number of volumes_from references in an environment description
MaxVolumeRefs == 2
\* the depth of calls at which the interpreter gives up a recursion
RecursionLimit == 5

(***************************************************************************)
(* The universe of names the environment descriptions are drawn from.      *)
(***************************************************************************)
ServiceNames == {"A", "B", "C"}
ContainerNames == {"a", "b", "c", "d"}
ShipNames == {"s1", "s2"}
VolumePaths == {"/v1", "/v2"}
\* a service name no description declares
Undeclared == "X"
\* a container name no description declares
Unknown == "nope"
\* Python's None
None == "None"

Range(seq) == {seq[i] : i \in 1..Len(seq)}

(***************************************************************************)
(* Strings.  TLC has no order on strings, so a name is spelt out as its    *)
(* characters and compared as Python compares str values.                  *)
(***************************************************************************)
Chars(s) ==
    CASE s = "s1" -> <<"s", "1">>
      [] s = "s2" -> <<"s", "2">>
      [] s = "nope" -> <<"n", "o", "p", "e">>
      [] OTHER -> <<s>>

Ord(ch) ==
    CASE ch = "1" -> 49 [] ch = "2" -> 50
      [] ch = "A" -> 65 [] ch = "B" -> 66 [] ch = "C" -> 67 [] ch = "X" -> 88
      [] ch = "a" -> 97 [] ch = "b" -> 98 [] ch = "c" -> 99 [] ch = "d" -> 100
      [] ch = "e" -> 101 [] ch = "n" -> 110 [] ch = "o" -> 111
      [] ch = "p" -> 112 [] ch = "s" -> 115

RECURSIVE SeqLt(_, _, _)
SeqLt(x, y, i) ==
    IF i > Len(y) THEN FALSE
    ELSE IF i > Len(x) THEN TRUE
    ELSE IF Ord(x[i]) # Ord(y[i]) THEN Ord(x[i]) < Ord(y[i])
    ELSE SeqLt(x, y, i + 1)

\* str.__lt__
StrLt(x, y) == SeqLt(Chars(x), Chars(y), 1)

\* sorted() of a collection without repetitions
RECURSIVE SortedSet(_)
SortedSet(S) ==
    IF S = {} THEN <<>>
    ELSE LET m == CHOOSE x \in S : \A y \in S : ~StrLt(y, x)
         IN  <<m>> \o SortedSet(S \ {m})

\* one step of insertion for sorted(): x goes after every element not
\* greater than it (sorted() is stable)
RECURSIVE InsertSorted(_, _)
InsertSorted(seq, x) ==
    IF seq = <<>> THEN <<x>>
    ELSE IF StrLt(x, Head(seq)) THEN <<x>> \o seq
    ELSE <<Head(seq)>> \o InsertSorted(Tail(seq), x)

\* sorted() of a list of containers, repetitions kept
RECURSIVE SortedList(_)
SortedList(seq) ==
    IF seq = <<>> THEN <<>>
    ELSE InsertSorted(SortedList(SubSeq(seq, 1, Len(seq) - 1)), seq[Len(seq)])

\* fnmatch.fnmatch(name, pattern) for patterns made of literal characters,
\* "?" (any one character) and "*" (any run of characters); n and p are the
\* characters that are left of the name and token list of the pattern
RECURSIVE GlobMatch(_, _)
GlobMatch(n, p) ==
    IF p = <<>> THEN n = <<>>
    ELSE IF Head(p) = "*"
         THEN GlobMatch(n, Tail(p)) \/ (n # <<>> /\ GlobMatch(Tail(n), p))
    ELSE IF n = <<>> THEN FALSE
    ELSE (Head(p) = "?" \/ Head(p) = Head(n)) /\ GlobMatch(Tail(n), Tail(p))

Fnmatch(name, pattern) == GlobMatch(Chars(name), pattern)

(***************************************************************************)
(* Exceptions: the class, the message and the arguments formatted into it. *)
(***************************************************************************)
NoError == [kind |-> "none", what |-> "none", args |-> <<>>]
Err(kind, what, args) == [kind |-> kind, what |-> what, args |-> args]

(***************************************************************************)
(* Environment descriptions (the parsed YAML document handed to            *)
(* Conductor.__init__).                                                    *)
(***************************************************************************)
Reverse(seq) == [i \in 1..Len(seq) |-> seq[Len(seq) + 1 - i]]

\* a description: decl is the set of <<service, instance name>> pairs,
\* req and want the sets of <<service, target>> pairs; the instances of a
\* service are listed in ascending or in descending order of their names
Description(hasName, decl, ascending, req, want, ship, volumes, vfrom) ==
    [ hasName      |-> hasName,
      svcOrder     |-> SortedSet(ServiceNames),
      instances    |-> [s \in ServiceNames |->
                          LET names == SortedSet({n \in ContainerNames : <<s, n>> \in decl})
                          IN  IF ascending THEN names ELSE Reverse(names)],
      requires     |-> [s \in ServiceNames |->
                          SortedSet({t \in ServiceNames \cup {Undeclared} :
                                       <<s, t>> \in req})],
      wants_info   |-> [s \in ServiceNames |->
                          SortedSet({t \in ServiceNames \cup {Undeclared} :
                                       <<s, t>> \in want})],
      ship         |-> ship,
      volumes      |-> volumes,
      volumes_from |-> vfrom,
      env          |-> [n \in ContainerNames |-> <<>>],
      linkname     |-> [n \in ContainerNames |-> n],
      descending   |-> FALSE ]

\* the description d with the environment env declared for the instances,
\* with linkname[n] the name of the link variable that instance n gives rise
\* to, and with sets of services iterated in descending (TRUE) or ascending
\* order of their names
WithLinks(d, env, linkname, descending) ==
    [d EXCEPT !.env = env, !.linkname = linkname, !.descending = descending]

\* every service owns at least one instance (spec.md section 3); services
\* are labelled in the order of their first instance
Owners ==
    {o \in [ContainerNames -> ServiceNames] :
        /\ \A s \in ServiceNames : \E n \in ContainerNames : o[n] = s
        /\ o["a"] = "A"
        /\ \A n \in ContainerNames : o[n] = "C" =>
              \E m \in ContainerNames : StrLt(m, n) /\ o[m] = "B"}

DeclOf(o) == {<<o[n], n>> : n \in ContainerNames}

\* sets of at most max edges from a service to another name
EdgeSets(targets, max) ==
    {E \in SUBSET {e \in ServiceNames \X targets : e[1] # e[2]} :
        Cardinality(E) <= max}

\* the volumes_from lists that hold the references refs, a set of
\* <<container, name referred to>> pairs
VolumesFrom(refs) ==
    [n \in ContainerNames |->
        SortedSet({m \in ContainerNames \cup {Unknown} : <<n, m>> \in refs})]
ReferenceSets ==
    {R \in SUBSET {r \in ContainerNames \X (ContainerNames \cup {Unknown}) :
                     r[1] # r[2]} :
        Cardinality(R) <= MaxVolumeRefs}
NoVolumesFrom == [n \in ContainerNames |-> <<>>]
OneVolumesFrom(from, to) == [n \in ContainerNames |-> IF n = from THEN <<to>> ELSE <<>>]

\* ship placements: everything on one ship, or "d" alone on the second one
OneShip == [n \in ContainerNames |-> "s1"]
TwoShips == [n \in ContainerNames |-> IF n = "d" THEN "s2" ELSE "s1"]

\* mount paths: those of "b" are disjoint from those of "a" and of "d", any
\* other two containers claim a common path
Volumes == [n \in ContainerNames |->
              CASE n = "a" -> {"/v1"} [] n = "b" -> {"/v2"}
                [] n = "c" -> {"/v1", "/v2"} [] n = "d" -> {"/v1"}]

(***************************************************************************)
(* Conductor.__init__.  The Conductor under construction is the record     *)
(*   services    the keys of self.services                                 *)
(*   containers  self.containers: name -> Container                        *)
(*   corder      the insertion order of self.containers                    *)
(*   requires, needed_for, wants_info   the relations held by the Services *)
(*   env         container name -> that container's environment            *)
(*   derived     service -> how often its link variables were derived for  *)
(*               use by a dependent                                        *)
(*   lastdep     the local variable `dependency` of __init__               *)
(*   error       the exception that ended construction, if any             *)
(***************************************************************************)
Unbound == "<unbound>"

NewConductor ==
    [ services   |-> {},
      containers |-> <<>>,
      corder     |-> <<>>,
      requires   |-> [s \in ServiceNames |-> {}],
      needed_for |-> [s \in ServiceNames |-> {}],
      wants_info |-> [s \in ServiceNames |-> {}],
      env        |-> <<>>,
      derived    |-> [s \in ServiceNames |-> 0],
      lastdep    |-> Unbound,
      error      |-> NoError ]

Failed(st) == st.error # NoError

\* entities.Container(ships, name, service, config, ...)
Container(cfg, name, s) ==
    [ service      |-> s,
      ship         |-> cfg.ship[name],
      volumes      |-> cfg.volumes[name],
      volumes_from |-> cfg.volumes_from[name],
      linkname     |-> cfg.linkname[name] ]

\* Service.containers
ContainersOf(st, s) == {n \in DOMAIN st.containers : st.containers[n].service = s}
\* Service.containers as a list, in the order the containers were built
ContainerList(st, s) == SelectSeq(st.corder, LAMBDA n : st.containers[n].service = s)

\* Service.add_dependency, Service.add_dependent, Service.add_wants_info
AddDependency(st, s, t) == [st EXCEPT !.requires[s] = @ \cup {t}]
AddDependent(st, s, t) == [st EXCEPT !.needed_for[s] = @ \cup {t}]
AddWantsInfo(st, s, t) == [st EXCEPT !.wants_info[s] = @ \cup {t}]

\* lines 62-78: the instances of service s, from the i-th on
RECURSIVE BuildInstances(_, _, _, _)
BuildInstances(cfg, st, s, i) ==
    IF i > Len(cfg.instances[s]) THEN st
    ELSE LET name == cfg.instances[s][i]
         IN  IF name \in DOMAIN st.containers
             THEN [st EXCEPT !.error =
                      Err("EnvironmentConfigurationException", "already defined",
                          <<name, st.containers[name].service>>)]
             ELSE BuildInstances(cfg,
                      [st EXCEPT !.containers = @ @@ (name :> Container(cfg, name, s)),
                                 !.corder = Append(@, name),
                                 !.env = @ @@ (name :> cfg.env[name])],
                      s, i + 1)

\* lines 46-78: the services, from the k-th on
RECURSIVE BuildEntities(_, _, _)
BuildEntities(cfg, st, k) ==
    IF k > Len(cfg.svcOrder) \/ Failed(st) THEN st
    ELSE LET s == cfg.svcOrder[k]
         IN  BuildEntities(cfg,
                 BuildInstances(cfg, [st EXCEPT !.services = @ \cup {s}], s, 1),
                 k + 1)

\* ResolveRequires without the test of line 83
RECURSIVE ResolveRequiresUnchecked(_, _, _, _)
ResolveRequiresUnchecked(cfg, st, kind, i) ==
    IF i > Len(cfg.requires[kind]) THEN st
    ELSE ResolveRequiresUnchecked(cfg,
             [st EXCEPT !.lastdep = cfg.requires[kind][i],
                        !.requires[kind] = @ \cup {cfg.requires[kind][i]}],
             kind, i + 1)

\* lines 82-88: the requires list of service kind, from the i-th entry on
RECURSIVE ResolveRequires(_, _, _, _)
ResolveRequires(cfg, st, kind, i) ==
    IF i > Len(cfg.requires[kind]) THEN st
    ELSE LET dependency == cfg.requires[kind][i]
             bound == [st EXCEPT !.lastdep = dependency]
         IN  IF dependency \notin st.services
             THEN [bound EXCEPT !.error =
                      Err("EnvironmentConfigurationException", "does not exist",
                          <<dependency, kind>>)]
             ELSE ResolveRequires(cfg,
                      AddDependent(AddDependency(bound, kind, dependency),
                                   dependency, kind),
                      kind, i + 1)

\* lines 89-94: the wants_info list of service kind, from the i-th entry on;
\* the message is formatted from the variable `dependency` of the loop above
RECURSIVE ResolveWantsInfo(_, _, _, _)
ResolveWantsInfo(cfg, st, kind, i) ==
    IF i > Len(cfg.wants_info[kind]) THEN st
    ELSE LET wants_info == cfg.wants_info[kind][i]
         IN  IF wants_info \notin st.services
             THEN IF st.lastdep = Unbound
                  THEN [st EXCEPT !.error = Err("UnboundLocalError", "dependency", <<>>)]
                  ELSE [st EXCEPT !.error =
                           Err("EnvironmentConfigurationException", "does not exist",
                               <<st.lastdep, kind>>)]
             ELSE ResolveWantsInfo(cfg, AddWantsInfo(st, kind, wants_info), kind, i + 1)

\* lines 81-94: the services, from the k-th on
RECURSIVE ResolveDependencies(_, _, _)
ResolveDependencies(cfg, st, k) ==
    IF k > Len(cfg.svcOrder) \/ Failed(st) THEN st
    ELSE LET kind == cfg.svcOrder[k]
             r == ResolveRequires(cfg, st, kind, 1)
         IN  ResolveDependencies(cfg,
                 IF Failed(r) THEN r ELSE ResolveWantsInfo(cfg, r, kind, 1),
                 k + 1)

\* Service.get_link_variables: one variable per container of the service
\* that gives rise to one, telling the service and the host to reach
LinkVariables(st, s) ==
    [k \in {st.containers[n].linkname : n \in ContainersOf(st, s)} \ {None} |->
        <<s, st.containers[CHOOSE n \in ContainersOf(st, s) :
                              st.containers[n].linkname = k].ship>>]

\* dict.update keeping the value a key already has
UpdateKeepingOld(d, m) ==
    [k \in DOMAIN d \cup DOMAIN m |-> IF k \in DOMAIN d THEN d[k] ELSE m[k]]

\* dict.update
Update(d, m) ==
    [k \in DOMAIN d \cup DOMAIN m |-> IF k \in DOMAIN m THEN m[k] ELSE d[k]]

\* CacheMiss taking an empty cached mapping for a missing one
CacheMissWhenEmpty(cache, dependency) ==
    \/ dependency \notin DOMAIN cache
    \/ DOMAIN cache[dependency] = {}

\* lines 106-107: dep_link_vars_cache.get(dependency, None) is None
CacheMiss(cache, dependency) == dependency \notin DOMAIN cache

\* lines 105-110 for container c: the dependencies deps, from the i-th on;
\* cache is dep_link_vars_cache
RECURSIVE LinkDependencies(_, _, _, _, _)
LinkDependencies(st, cache, c, deps, i) ==
    IF i > Len(deps) THEN [st |-> st, cache |-> cache]
    ELSE LET dependency == deps[i]
             miss == CacheMiss(cache, dependency)
             dep_link_vars == IF miss THEN LinkVariables(st, dependency)
                                      ELSE cache[dependency]
             st1 == IF miss THEN [st EXCEPT !.derived[dependency] = @ + 1] ELSE st
         IN  LinkDependencies(
                 [st1 EXCEPT !.env[c] = Update(@, dep_link_vars)],
                 IF miss THEN (dependency :> dep_link_vars) @@ cache ELSE cache,
                 c, deps, i + 1)

\* line 105: the order in which the set service.requires.union(
\* service.wants_info) is iterated, which the language leaves open
UnionOrder(cfg, st, s) ==
    LET deps == SortedSet(st.requires[s] \cup st.wants_info[s])
    IN  IF cfg.descending THEN Reverse(deps) ELSE deps

\* lines 101-110 for service s: its containers cs, from the i-th on
RECURSIVE LinkContainers(_, _, _, _, _, _)
LinkContainers(cfg, st, cache, s, cs, i) ==
    IF i > Len(cs) THEN [st |-> st, cache |-> cache]
    ELSE LET c == cs[i]
             own == [st EXCEPT !.env[c] = Update(@, LinkVariables(st, s))]
             r == LinkDependencies(own, cache, c, UnionOrder(cfg, st, s), 1)
         IN  LinkContainers(cfg, r.st, r.cache, s, cs, i + 1)

\* lines 98-110: the services, from the k-th on
RECURSIVE LinkServices(_, _, _, _)
LinkServices(cfg, st, cache, k) ==
    IF k > Len(cfg.svcOrder) THEN st
    ELSE LET s == cfg.svcOrder[k]
             r == LinkContainers(cfg, st, cache, s, ContainerList(st, s), 1)
         IN  LinkServices(cfg, r.st, r.cache, k + 1)

\* Container.get_volumes
GetVolumes(st, c) == st.containers[c].volumes

\* AddVolumeEdge with the two services swapped
AddVolumeEdgeReversed(st, c, other) ==
    [st EXCEPT !.requires[st.containers[other].service] =
        @ \cup {st.containers[c].service}]

\* line 139: the edge a volumes_from reference adds
AddVolumeEdge(st, c, other) ==
    AddDependency(st, st.containers[c].service, st.containers[other].service)

\* CheckVolumesFrom looking for volume conflicts before it looks at the ships
CheckVolumesFromConflictsFirst(st, c, volumes_from) ==
    IF volumes_from \notin DOMAIN st.containers
    THEN [st EXCEPT !.error =
             Err("InvalidVolumeConfigurationException", "unknown container",
                 <<volumes_from, c>>)]
    ELSE LET conflicts == st.containers[c].volumes \cap st.containers[volumes_from].volumes
         IN  IF conflicts # {}
             THEN [st EXCEPT !.error =
                      Err("InvalidVolumeConfigurationException", "volume conflicts",
                          <<c, volumes_from, conflicts>>)]
             ELSE IF st.containers[volumes_from].ship # st.containers[c].ship
             THEN [st EXCEPT !.error =
                      Err("InvalidVolumeConfigurationException", "not on the same host",
                          <<volumes_from, c, c>>)]
             ELSE [st EXCEPT !.requires[st.containers[c].service] =
                      @ \cup {st.containers[volumes_from].service}]

\* lines 117-139: one volumes_from reference of container c
CheckVolumesFrom(st, c, volumes_from) ==
    IF volumes_from \notin DOMAIN st.containers
    THEN [st EXCEPT !.error =
             Err("InvalidVolumeConfigurationException", "unknown container",
                 <<volumes_from, c>>)]
    ELSE IF st.containers[volumes_from].ship # st.containers[c].ship
    THEN [st EXCEPT !.error =
             Err("InvalidVolumeConfigurationException", "not on the same host",
                 <<volumes_from, c, c>>)]
    ELSE LET conflicts == GetVolumes(st, c) \cap GetVolumes(st, volumes_from)
         IN  IF conflicts # {}
             THEN [st EXCEPT !.error =
                      Err("InvalidVolumeConfigurationException", "volume conflicts",
                          <<c, volumes_from, conflicts>>)]
             ELSE AddVolumeEdge(st, c, volumes_from)

\* lines 116-139 for container c: its volumes_from list, from the i-th on
RECURSIVE CheckContainerVolumes(_, _, _)
CheckContainerVolumes(st, c, i) ==
    IF i > Len(st.containers[c].volumes_from) \/ Failed(st) THEN st
    ELSE CheckContainerVolumes(
             CheckVolumesFrom(st, c, st.containers[c].volumes_from[i]), c, i + 1)

\* lines 115-139: the containers, from the k-th on
RECURSIVE CheckVolumes(_, _)
CheckVolumes(st, k) ==
    IF k > Len(st.corder) \/ Failed(st) THEN st
    ELSE CheckVolumes(CheckContainerVolumes(st, st.corder[k], 1), k + 1)

\* Conductor.__init__(config)
ConductorInit(cfg) ==
    IF ~cfg.hasName
    THEN [NewConductor EXCEPT !.error =
             Err("EnvironmentConfigurationException", "name is missing", <<>>)]
    ELSE LET built == BuildEntities(cfg, NewConductor, 1)
             wired == IF Failed(built) THEN built ELSE ResolveDependencies(cfg, built, 1)
             linked == IF Failed(wired) THEN wired ELSE LinkServices(cfg, wired, <<>>, 1)
         IN  IF Failed(linked) THEN linked ELSE CheckVolumes(linked, 1)

(***************************************************************************)
(* Closure and ordering.  A call returns a list or raises: the result is   *)
(* the record [error, value].                                              *)
(***************************************************************************)
Returned(value) == [error |-> NoError, value |-> value]
Raised(error) == [error |-> error, value |-> <<>>]

\* Related following wants_info edges as well as requires edges
RelatedWithWants(st, s, forward) ==
    IF forward THEN st.requires[s] \cup st.wants_info[s] ELSE st.needed_for[s]

\* Service.requires and Service.needed_for, by direction
Related(st, s, forward) == IF forward THEN st.requires[s] ELSE st.needed_for[s]

\* lines 200-203: the containers of the services related to container c's
DependencyContainers(st, c, forward) ==
    UNION {ContainersOf(st, s) : s \in Related(st, st.containers[c].service, forward)}

\* Conductor._gather_dependencies(containers, forward): the loop runs over
\* the set result was first bound to, and rebinds result in its body
GatherDependencies(st, containers, forward) ==
    LET result == IF containers # {} THEN containers ELSE DOMAIN st.containers
    IN  result \cup UNION {DependencyContainers(st, c, forward) : c \in result}

\* MustWait testing for one placed dependency where it should test for all
MustWaitForAny(deps, ordered, container) ==
    deps # {} /\ deps \cap (Range(ordered) \cup {container}) = {}

\* line 174: must the container wait for a later round?
MustWait(deps, ordered, container) ==
    deps # {} /\ ~(deps \subseteq (Range(ordered) \cup {container}))

\* OrderRound placing a container that waits on the ordered list as well
RECURSIVE OrderRoundPlacingAll(_, _, _, _, _, _)
OrderRoundPlacingAll(st, pending, i, ordered, wait, forward) ==
    IF i > Len(pending) THEN [ordered |-> ordered, wait |-> wait]
    ELSE LET container == pending[i]
             deps == GatherDependencies(st, {container}, forward)
         IN  IF MustWait(deps, ordered, container)
             THEN OrderRoundPlacingAll(st, pending, i + 1, Append(ordered, container),
                                       Append(wait, container), forward)
             ELSE OrderRoundPlacingAll(st, pending, i + 1, Append(ordered, container),
                                       wait, forward)

\* OrderRound putting a container that waits at the head of the wait list
RECURSIVE OrderRoundWaitFirst(_, _, _, _, _, _)
OrderRoundWaitFirst(st, pending, i, ordered, wait, forward) ==
    IF i > Len(pending) THEN [ordered |-> ordered, wait |-> wait]
    ELSE LET container == pending[i]
             deps == GatherDependencies(st, {container}, forward)
         IN  IF MustWait(deps, ordered, container)
             THEN OrderRoundWaitFirst(st, pending, i + 1, ordered,
                                      <<container>> \o wait, forward)
             ELSE OrderRoundWaitFirst(st, pending, i + 1, Append(ordered, container),
                                      wait, forward)

\* lines 172-177: one round over pending, from the i-th container on
RECURSIVE OrderRound(_, _, _, _, _, _)
OrderRound(st, pending, i, ordered, wait, forward) ==
    IF i > Len(pending) THEN [ordered |-> ordered, wait |-> wait]
    ELSE LET container == pending[i]
             deps == GatherDependencies(st, {container}, forward)
         IN  IF MustWait(deps, ordered, container)
             THEN OrderRound(st, pending, i + 1, ordered, Append(wait, container), forward)
             ELSE OrderRound(st, pending, i + 1, Append(ordered, container), wait, forward)

\* Stuck without the test of line 183
NeverStuck(wait, pending) == FALSE

\* line 183: no container of pending could be placed
Stuck(wait, pending) ==
    wait # <<>> /\ pending # <<>> /\ Len(wait) = Len(pending)

\* Conductor._order_dependencies(pending, ordered, forward)
RECURSIVE OrderDependencies(_, _, _, _)
OrderDependencies(st, pending, ordered, forward) ==
    LET round == OrderRound(st, pending, 1, ordered, <<>>, forward)
    IN  IF Stuck(round.wait, pending)
        THEN Raised(Err("DependencyException", "cannot resolve dependencies",
                        round.wait))
        ELSE IF round.wait # <<>>
        THEN OrderDependencies(st, round.wait, round.ordered, forward)
        ELSE Returned(round.ordered)

(***************************************************************************)
(* Selection.                                                              *)
(***************************************************************************)
\* ParseThing expanding a service whatever expand_services says
ParseThingExpanding(st, s, expand_services) ==
    IF s \in DOMAIN st.containers THEN [error |-> NoError, value |-> <<s>>]
    ELSE IF s \in st.services
    THEN [error |-> NoError, value |-> ContainerList(st, s)]
    ELSE [error |-> Err("OrchestrationException", "neither service nor container", <<s>>),
          value |-> <<>>]

\* parse_thing(s) of _to_containers, lines 221-231
ParseThing(st, s, expand_services) ==
    IF s \in DOMAIN st.containers THEN Returned(<<s>>)
    ELSE IF s \in st.services
    THEN IF expand_services THEN Returned(ContainerList(st, s))
         ELSE Raised(Err("OrchestrationException", "is a service", <<s>>))
    ELSE Raised(Err("OrchestrationException", "neither service nor container", <<s>>))

\* lines 232-234: the things, from the i-th on
RECURSIVE ParseThings(_, _, _, _, _)
ParseThings(st, things, expand_services, i, result) ==
    IF i > Len(things) THEN Returned(result)
    ELSE LET parsed == ParseThing(st, things[i], expand_services)
         IN  IF parsed.error # NoError THEN parsed
             ELSE ParseThings(st, things, expand_services, i + 1,
                              result \o parsed.value)

\* `if container_filter:` / `if ship_filter:`
Truthy(filter) == filter # None /\ filter # <<>>

\* lines 235-237
FilterContainers(st, result, container_filter) ==
    IF Truthy(container_filter)
    THEN SortedSet({c \in Range(result) : Fnmatch(c, container_filter)})
    ELSE result

\* lines 238-240
FilterShips(st, result, ship_filter) ==
    IF Truthy(ship_filter)
    THEN SortedSet({c \in Range(result) : Fnmatch(st.containers[c].ship, ship_filter)})
    ELSE result

\* Conductor._to_containers(things, expand_services, container_filter, ship_filter)
ToContainers(st, things, expand_services, container_filter, ship_filter) ==
    LET parsed == ParseThings(st, things, expand_services, 1, <<>>)
    IN  IF parsed.error # NoError THEN parsed
        ELSE Returned(SortedList(
                 FilterShips(st, FilterContainers(st, parsed.value, container_filter),
                             ship_filter)))

\* Conductor._ordered_containers(things, expand_services, forward)
OrderedContainers(st, things, expand_services, forward) ==
    LET selected == ToContainers(st, things, expand_services, None, None)
    IN  IF selected.error # NoError THEN selected
        ELSE OrderDependencies(st,
                 SortedSet(GatherDependencies(st, Range(selected.value), forward)),
                 <<>>, forward)

(***************************************************************************)
(* The program: one invocation.                                            *)
(*   config     the environment description that was loaded                *)
(*   phase      "loaded" (before Conductor.__init__), "ready" (constructed)*)
(*              "failed" (construction raised), "ordering" (inside the     *)
(*              recursion of _order_dependencies), "done" (operation over) *)
(*   conductor  the Conductor                                              *)
(*   call       the operation invoked on the Conductor and its arguments   *)
(*   outcome    what the selection/ordering of that operation gave; while  *)
(*              ordering, the arguments of the next invocation             *)
(*   play       the Play that was run on outcome.value, None if none was   *)
(***************************************************************************)
VARIABLES config, phase, conductor, call, outcome, play

vars == <<config, phase, conductor, call, outcome, play>>

NoCall ==
    [ op |-> None, things |-> <<>>, expand_services |-> FALSE, forward |-> TRUE,
      with_dependencies |-> FALSE, container_filter |-> None, ship_filter |-> None,
      full |-> FALSE ]

Call(op, things, expand_services, forward, with_dependencies, container_filter, ship_filter, full) ==
    [ op |-> op, things |-> things, expand_services |-> expand_services,
      forward |-> forward, with_dependencies |-> with_dependencies,
      container_filter |-> container_filter, ship_filter |-> ship_filter,
      full |-> full ]

\* the names an operation may be given
ThingNames == ContainerNames \cup ServiceNames \cup {Unknown}
ThingLists(names) == UNION {[1..n -> names] : n \in 0..MaxThings}
\* the names given on the command line of a lifecycle command
CommandThings == {"a", "d", "C"}
\* the names given to the ordering
OrderThings == {"a", "b", "d", "A", "B"}
\* the names given to the ordering that is followed call by call
RoundThings == {"a", "d", "B"}
ContainerFilters == {None, <<"b">>, <<"*">>}
ShipFilters == {None, <<"s", "1">>, <<"*", "2">>}
CommandContainerFilters == {None, <<"a">>}
CommandShipFilters == {None, <<"s", "?">>}

Loaded(description) ==
    /\ config = description
    /\ phase = "loaded"
    /\ conductor = NewConductor
    /\ call = NoCall
    /\ outcome = Returned(<<>>)
    /\ play = None

\* Conductor(config)
Construct ==
    /\ phase = "loaded"
    /\ conductor' = ConductorInit(config)
    /\ phase' = IF Failed(conductor') THEN "failed" ELSE "ready"
    /\ UNCHANGED <<config, call, outcome, play>>

\* conductor._to_containers(things, expand_services, container_filter, ship_filter)
Select ==
    /\ phase = "ready"
    /\ \E things \in ThingLists(ThingNames), expand_services \in BOOLEAN,
          container_filter \in ContainerFilters, ship_filter \in ShipFilters :
          /\ call' = Call("_to_containers", things, expand_services, TRUE, FALSE,
                          container_filter, ship_filter, FALSE)
          /\ outcome' = ToContainers(conductor, things, expand_services,
                                     container_filter, ship_filter)
    /\ phase' = "done"
    /\ UNCHANGED <<config, conductor, play>>

\* conductor._ordered_containers(things, expand_services, forward)
Order ==
    /\ phase = "ready"
    /\ \E things \in ThingLists(OrderThings),
          expand_services \in BOOLEAN, forward \in BOOLEAN :
          /\ call' = Call("_ordered_containers", things, expand_services, forward,
                          TRUE, None, None, FALSE)
          /\ outcome' = OrderedContainers(conductor, things, expand_services, forward)
    /\ phase' = "done"
    /\ UNCHANGED <<config, conductor, play>>

\* an invocation of _order_dependencies about to run: its arguments pending
\* and ordered
Frame(pending, ordered) == [error |-> NoError, value |-> ordered, pending |-> pending]

\* Conductor._ordered_containers up to its call of _order_dependencies
\* (lines 266-270): the selection and its closure, sorted
BeginOrder ==
    /\ phase = "ready"
    /\ \E things \in ThingLists(RoundThings),
          expand_services \in BOOLEAN, forward \in BOOLEAN :
          /\ call' = Call("_ordered_containers", things, expand_services, forward,
                          TRUE, None, None, FALSE)
          /\ LET selected == ToContainers(conductor, things, expand_services, None, None)
             IN  IF selected.error # NoError
                 THEN /\ outcome' = Raised(selected.error)
                      /\ phase' = "done"
                 ELSE /\ outcome' = Frame(SortedSet(GatherDependencies(
                                              conductor, Range(selected.value), forward)),
                                          <<>>)
                      /\ phase' = "ordering"
    /\ UNCHANGED <<config, conductor, play>>

\* one invocation of Conductor._order_dependencies (lines 169-192): a round
\* over pending, then the error, the recursive call or the return
OrderCall ==
    /\ phase = "ordering"
    /\ LET round == OrderRound(conductor, outcome.pending, 1, outcome.value, <<>>,
                               call.forward)
       IN  IF Stuck(round.wait, outcome.pending)
           THEN /\ outcome' = Raised(Err("DependencyException",
                                         "cannot resolve dependencies", round.wait))
                /\ phase' = "done"
           ELSE IF round.wait # <<>>
           THEN /\ outcome' = Frame(round.wait, round.ordered)
                /\ phase' = "ordering"
           ELSE /\ outcome' = Returned(round.ordered)
                /\ phase' = "done"
    /\ UNCHANGED <<config, call, conductor, play>>

\* Conductor._gather_dependencies(containers, forward); the set given and
\* the set returned are listed by name
Gather ==
    /\ phase = "ready"
    /\ \E containers \in SUBSET DOMAIN conductor.containers, forward \in BOOLEAN :
          /\ call' = Call("_gather_dependencies", SortedSet(containers), FALSE, forward,
                          FALSE, None, None, FALSE)
          /\ outcome' = Returned(SortedSet(GatherDependencies(conductor, containers, forward)))
    /\ play' = None
    /\ phase' = "done"
    /\ UNCHANGED <<config, conductor>>

\* the first statement of every lifecycle command (lines 320-323, 353-356,
\* 388-391, 431-435, 468-472, 498-502, 525-528)
CommandContainers(st, c) ==
    IF c.with_dependencies
    THEN OrderedContainers(st, c.things, c.expand_services, c.forward)
    ELSE ToContainers(st, c.things, c.expand_services, c.container_filter,
                      c.ship_filter)

\* a lifecycle command: the containers, then plays.<Play>(containers, ...).run()
Lifecycle(op, run, forward, full) ==
    /\ phase = "ready"
    /\ \E things \in ThingLists(CommandThings), expand_services \in BOOLEAN,
          with_dependencies \in BOOLEAN,
          container_filter \in CommandContainerFilters,
          ship_filter \in CommandShipFilters :
          /\ call' = Call(op, things, expand_services, forward, with_dependencies,
                          container_filter, ship_filter, full)
          /\ outcome' = CommandContainers(conductor, call')
    /\ play' = IF outcome'.error = NoError THEN run ELSE None
    /\ phase' = "done"
    /\ UNCHANGED <<config, conductor>>

\* Conductor.status
Status ==
    \E full \in BOOLEAN :
        Lifecycle("status", IF full THEN "FullStatus" ELSE "Status", TRUE, full)
\* Conductor.pull
Pull == Lifecycle("pull", "Pull", TRUE, FALSE)
\* Conductor.start
Start == Lifecycle("start", "Start", TRUE, FALSE)
\* Conductor.restart
Restart == Lifecycle("restart", "Restart", FALSE, FALSE)
\* Conductor.stop
Stop == Lifecycle("stop", "Stop", FALSE, FALSE)
\* Conductor.kill
Kill == Lifecycle("kill", "Kill", FALSE, FALSE)
\* Conductor.clean
Clean == Lifecycle("clean", "Clean", TRUE, FALSE)

\* what container.status() may answer: nothing, or a state that is running
\* or not
ContainerStatus == {"none", "running", "stopped"}

\* NotSingle refusing the empty selection only
NoContainer(containers) == Len(containers) = 0

\* line 551: len(containers) != 1
NotSingle(containers) == Len(containers) # 1

\* lines 557-596: the last backend call logs makes for its container:
\* container.status() alone when it answers nothing, backend.attach when the
\* log of a running container is followed, else backend.logs
LogsBackend(follow, status) ==
    CASE status = "none" -> "container.status"
      [] status = "running" /\ follow -> "backend.attach"
      [] OTHER -> "backend.logs"

\* Conductor.logs; play records the backend call reached, None when no
\* backend was called
Logs ==
    /\ phase = "ready"
    /\ \E things \in ThingLists(ThingNames), expand_services \in BOOLEAN,
          container_filter \in ContainerFilters, ship_filter \in ShipFilters,
          follow \in BOOLEAN, status \in ContainerStatus :
          /\ call' = Call("logs", things, expand_services, TRUE, FALSE,
                          container_filter, ship_filter, FALSE)
          /\ LET containers == ToContainers(conductor, things, expand_services,
                                            container_filter, ship_filter)
             IN  IF containers.error # NoError
                 THEN /\ outcome' = containers
                      /\ play' = None
                 ELSE IF NotSingle(containers.value)
                 THEN /\ outcome' = Raised(Err("ParameterException",
                                               "logs can only be shown for a single container",
                                               <<>>))
                      /\ play' = None
                 ELSE /\ outcome' = containers
                      /\ play' = LogsBackend(follow, status)
    /\ phase' = "done"
    /\ UNCHANGED <<config, conductor>>

\* parse_thing(s) of _to_services, lines 246-252
ParseService(st, s) ==
    IF s \in DOMAIN st.containers THEN Returned(<<st.containers[s].service>>)
    ELSE IF s \in st.services THEN Returned(<<s>>)
    ELSE Raised(Err("OrchestrationException", "neither service nor container", <<s>>))

\* map(parse_thing, things), from the i-th thing on
RECURSIVE ParseServices(_, _, _, _)
ParseServices(st, things, i, result) ==
    IF i > Len(things) THEN Returned(result)
    ELSE LET parsed == ParseService(st, things[i])
         IN  IF parsed.error # NoError THEN parsed
             ELSE ParseServices(st, things, i + 1, result \o parsed.value)

\* Conductor._to_services(things): sorted, without duplicates
ToServices(st, things) ==
    LET parsed == ParseServices(st, things, 1, <<>>)
    IN  IF parsed.error # NoError THEN parsed
        ELSE Returned(SortedSet(Range(parsed.value)))

\* Service.dependencies: the services that service requires
Dependencies(st, service) == st.requires[service]

\* a line printed by treehelper
Line(indent, last, name) == [indent |-> indent, last |-> last, name |-> name]
\* what treehelper did: the lines printed, the set shown as it left it, and
\* whether the recursion was given up
Rendering(lines, shown, overflow) == [lines |-> lines, shown |-> shown, overflow |-> overflow]

\* treehelper(service, indent, shown) of deptree, lines 601-610, called at
\* the given depth; TreeDeps is its loop over deps from the i-th on, with
\* the lines printed so far
RECURSIVE TreeHelper(_, _, _, _, _, _)
RECURSIVE TreeDeps(_, _, _, _, _, _, _, _)
TreeHelper(st, recursive, service, indent, shown, depth) ==
    IF depth > RecursionLimit THEN Rendering(<<>>, shown, TRUE)
    ELSE LET deps == SortedSet(IF recursive THEN Dependencies(st, service)
                                            ELSE Dependencies(st, service) \ shown)
         IN  TreeDeps(st, recursive, deps, 1, indent, shown \cup Range(deps), depth, <<>>)
TreeDeps(st, recursive, deps, i, indent, shown, depth, lines) ==
    IF i > Len(deps) THEN Rendering(lines, shown, FALSE)
    ELSE LET last == i = Len(deps)
             printed == Append(lines, Line(indent, last, deps[i]))
             below == TreeHelper(st, recursive, deps[i],
                                 indent \o (IF last THEN <<" ", " ">> ELSE <<"|", " ", " ">>),
                                 shown, depth + 1)
         IN  IF below.overflow
             THEN Rendering(printed \o below.lines, below.shown, TRUE)
             ELSE TreeDeps(st, recursive, deps, i + 1, indent, below.shown, depth,
                           printed \o below.lines)

\* lines 613-616: the trees of the services, from the i-th on; a tree is the
\* name of its root and the lines printed beneath it
RECURSIVE Trees(_, _, _, _, _)
Trees(st, recursive, services, i, result) ==
    IF i > Len(services) THEN Returned(result)
    ELSE LET tree == TreeHelper(st, recursive, services[i], <<" ">>, {}, 1)
             shown == Append(result, [root |-> services[i], lines |-> tree.lines])
         IN  IF tree.overflow
             THEN [error |-> Err("RecursionError", "maximum recursion depth exceeded",
                                 <<services[i]>>),
                   value |-> shown]
             ELSE Trees(st, recursive, services, i + 1, shown)

\* the names given to deptree
TreeThings == {"a", "B", Unknown}

\* Conductor.deptree(things, recursive); outcome holds the trees printed
Deptree ==
    /\ phase = "ready"
    /\ \E things \in ThingLists(TreeThings), recursive \in BOOLEAN :
          /\ call' = [recursive |-> recursive] @@
                         Call("deptree", things, FALSE, TRUE, FALSE, None, None, FALSE)
          /\ LET services == ToServices(conductor,
                                        IF things # <<>> THEN things
                                        ELSE SortedSet(conductor.services))
             IN  outcome' = IF services.error # NoError THEN services
                            ELSE Trees(conductor, recursive, services.value, 1, <<>>)
    /\ phase' = "done"
    /\ UNCHANGED <<config, conductor, play>>

(***************************************************************************)
(* Specifications.  They share the actions and differ in the descriptions  *)
(* the run starts from and in the operations invoked.                      *)
(***************************************************************************)
\* the volumes_from declarations of descriptions that construct: none, or
\* one reference between containers of one ship with disjoint mount paths
SafeVolumesFrom ==
    {NoVolumesFrom, OneVolumesFrom("a", "b"), OneVolumesFrom("b", "a"),
     OneVolumesFrom("d", "b")}

\* the ordering of containers, over descriptions whose references all
\* resolve
InitOrder ==
    \E o \in Owners, req \in EdgeSets(ServiceNames, MaxEdges), vf \in SafeVolumesFrom :
        Loaded(Description(TRUE, DeclOf(o), TRUE, req, {}, OneShip, Volumes, vf))
NextOrder == Construct \/ Gather \/ Order
SpecOrder == InitOrder /\ [][NextOrder]_vars

\* the selection of containers by name, over descriptions without
\* dependencies, on one ship or on two
InitSelect ==
    \E o \in Owners, ascending \in BOOLEAN, ship \in {OneShip, TwoShips} :
        Loaded(Description(TRUE, DeclOf(o), ascending, {}, {}, ship, Volumes,
                           NoVolumesFrom))
NextSelect == Construct \/ Select
SpecSelect == InitSelect /\ [][NextSelect]_vars

\* the logs command, over the descriptions of the selection
InitLogs == InitSelect
NextLogs == Construct \/ Logs
SpecLogs == InitLogs /\ [][NextLogs]_vars

\* the service layout the lifecycle commands are run on
CommandOwner == [n \in ContainerNames |->
                   CASE n = "a" -> "A" [] n = "b" -> "A" [] n = "c" -> "B" [] n = "d" -> "C"]

\* the lifecycle commands
Init ==
    \E req \in EdgeSets(ServiceNames, MaxEdges),
       vf \in {NoVolumesFrom, OneVolumesFrom("d", "b")} :
        Loaded(Description(TRUE, DeclOf(CommandOwner), TRUE, req, {}, OneShip, Volumes, vf))
Next == Construct \/ Status \/ Pull \/ Start \/ Restart \/ Stop \/ Kill \/ Clean
Spec == Init /\ [][Next]_vars

\* an instance name declared a second time, under another service
Duplicates(o) ==
    {{}} \cup {{p} : p \in {q \in ServiceNames \X {"a", "d"} : q[1] # o[q[2]]}}

\* construction, over descriptions it may reject: no name; instance names
\* used twice and dependencies on undeclared services, with one wants_info
\* entry at most; volumes_from references to unknown containers, across
\* ships and with overlapping mount paths, with one requires entry at most
InitBuild ==
    \/ Loaded(Description(FALSE, DeclOf(CommandOwner), TRUE, {}, {}, OneShip, Volumes,
                          NoVolumesFrom))
    \/ \E o \in Owners :
       \E dup \in Duplicates(o),
          req \in EdgeSets(ServiceNames \cup {Undeclared}, MaxEdges),
          want \in EdgeSets(ServiceNames \cup {Undeclared}, 1) :
           Loaded(Description(TRUE, DeclOf(o) \cup dup, TRUE, req, want, OneShip,
                              Volumes, NoVolumesFrom))
    \/ \E o \in Owners, req \in EdgeSets(ServiceNames, 1),
          ship \in {OneShip, TwoShips}, refs \in ReferenceSets :
           Loaded(Description(TRUE, DeclOf(o), TRUE, req, {}, ship, Volumes,
                              VolumesFrom(refs)))
NextBuild == Construct
SpecBuild == InitBuild /\ [][NextBuild]_vars

\* closure and ordering, over descriptions with wants_info edges
InitWants ==
    \E o \in Owners, req \in EdgeSets(ServiceNames, 1), want \in EdgeSets(ServiceNames, 1) :
        Loaded(Description(TRUE, DeclOf(o), TRUE, req, want, OneShip, Volumes,
                           NoVolumesFrom))
NextWants == Construct \/ Gather \/ Order
SpecWants == InitWants /\ [][NextWants]_vars

\* the ordering, one invocation of _order_dependencies at a time, over
\* descriptions with and without cycles; an invocation that was made runs
InitRounds ==
    \E o \in Owners, req \in EdgeSets(ServiceNames, MaxEdges) :
        Loaded(Description(TRUE, DeclOf(o), TRUE, req, {}, OneShip, Volumes,
                           NoVolumesFrom))
NextRounds == Construct \/ BeginOrder \/ OrderCall
SpecRounds == InitRounds /\ [][NextRounds]_vars /\ WF_vars(OrderCall)

\* the dependency trees, over descriptions with and without cycles
InitTree == InitRounds
NextTree == Construct \/ Deptree
SpecTree == InitTree /\ [][NextTree]_vars

\* the environment declared for the instances: nothing, or instance "a"
\* declares a variable that has the name of a link variable
InstanceEnvs ==
    {[n \in ContainerNames |-> <<>>]}
    \cup {[n \in ContainerNames |-> IF n = "a" THEN (k :> <<"declared">>) ELSE <<>>] :
              k \in {"a", "b"}}
\* the names of the link variables: one name per instance, or the variable
\* of one instance has the name of the variable of an instance of another
\* service, or the instances of one service give rise to no variable
LinkNames(o) ==
    {[n \in ContainerNames |-> n]}
    \cup {[n \in ContainerNames |-> IF n = p[1] THEN p[2] ELSE n] :
              p \in {q \in ContainerNames \X ContainerNames : o[q[1]] # o[q[2]]}}
    \cup {[n \in ContainerNames |-> IF o[n] = s THEN None ELSE n] : s \in ServiceNames}

\* the merge of link variables, over descriptions that construct and whose
\* variables may collide
InitLink ==
    \E o \in Owners, req \in EdgeSets(ServiceNames, MaxLinkEdges),
       want \in EdgeSets(ServiceNames, 1), env \in InstanceEnvs, descending \in BOOLEAN :
        \E linkname \in LinkNames(o) :
            Loaded(WithLinks(Description(TRUE, DeclOf(o), TRUE, req, want, TwoShips,
                                         Volumes, NoVolumesFrom),
                             env, linkname, descending))
NextLink == Construct
SpecLink == InitLink /\ [][NextLink]_vars

(***************************************************************************)
(* Properties.                                                             *)
(***************************************************************************)
Constructed == phase \in {"ready", "done"}
AllContainers == DOMAIN conductor.containers
ServiceOf(c) == conductor.containers[c].service
Requires(s, t) == t \in conductor.requires[s]

\* the services reachable from s by one or more `requires` edges
RECURSIVE Reach(_, _)
Reach(S, n) ==
    IF n = 0 THEN S
    ELSE Reach(S \cup UNION {conductor.requires[s] : s \in S}, n - 1)
TransitivelyRequired(s) == Reach(conductor.requires[s], Cardinality(ServiceNames))
Acyclic == \A s \in ServiceNames : s \notin TransitivelyRequired(s)

\* the position of container c in a sequence it occurs in
Position(seq, c) == CHOOSE i \in 1..Len(seq) : seq[i] = c
Before(seq, c, d) ==
    /\ c \in Range(seq)
    /\ d \in Range(seq)
    /\ Position(seq, c) < Position(seq, d)

Ordered(forward) ==
    /\ phase = "done"
    /\ call.op = "_ordered_containers"
    /\ call.forward = forward
OrderedAll(forward) == Ordered(forward) /\ call.things = <<>>

\* C1: in an acyclic environment the forward ordering of all containers
\* returns, and places every container after every container of every
\* service that its own service transitively requires.
C1_ForwardOrder ==
    (OrderedAll(TRUE) /\ Acyclic) =>
        /\ outcome.error = NoError
        /\ \A c \in AllContainers, d \in AllContainers :
              ServiceOf(d) \in TransitivelyRequired(ServiceOf(c)) =>
                  Before(outcome.value, d, c)

\* a chain of two edges, met by the ordering in the order opposite to the
\* names: "a" needs a container that needs a third one
C1_Witness ==
    /\ OrderedAll(TRUE)
    /\ Acyclic
    /\ outcome.error = NoError
    /\ \E c \in AllContainers, d \in AllContainers :
          /\ Requires(ServiceOf("a"), ServiceOf(c))
          /\ Requires(ServiceOf(c), ServiceOf(d))
          /\ ~Requires(ServiceOf("a"), ServiceOf(d))
          /\ Before(outcome.value, d, c)
          /\ Before(outcome.value, c, "a")

\* C2: in an acyclic environment the backward ordering of all containers
\* has the members of the forward ordering, and places every container
\* before every container of every service that its own service requires.
C2_BackwardOrder ==
    (OrderedAll(FALSE) /\ Acyclic) =>
        /\ outcome.error = NoError
        /\ Range(outcome.value) =
              Range(OrderedContainers(conductor, <<>>, call.expand_services, TRUE).value)
        /\ \A c \in AllContainers, d \in AllContainers :
              Requires(ServiceOf(c), ServiceOf(d)) => Before(outcome.value, c, d)

\* C3: when two services require each other, ordering their containers ends
\* in the dependency error, which names the containers of both services;
\* no sequence is returned.
C3_MutualCycle ==
    \A s \in ServiceNames, t \in ServiceNames :
        ( /\ phase = "done"
          /\ call.op = "_ordered_containers"
          /\ s # t
          /\ Requires(s, t)
          /\ Requires(t, s)
          /\ Range(call.things) # {}
          /\ UNION {Range(ParseThing(conductor, x, TRUE).value) : x \in Range(call.things)}
                = ContainersOf(conductor, s) \cup ContainersOf(conductor, t)
          /\ ParseThings(conductor, call.things, call.expand_services, 1, <<>>).error
                = NoError ) =>
            /\ outcome.error.kind = "DependencyException"
            /\ outcome.value = <<>>
            /\ ContainersOf(conductor, s) \cup ContainersOf(conductor, t)
                  \subseteq Range(outcome.error.args)

LifecycleOps == {"status", "pull", "start", "restart", "stop", "kill", "clean"}

\* the containers the call selects: the names resolved, the filters applied
\* where the command applies them
Selection ==
    ToContainers(conductor, call.things, call.expand_services,
                 IF call.with_dependencies THEN None ELSE call.container_filter,
                 IF call.with_dependencies THEN None ELSE call.ship_filter)
SelectedServices == {ServiceOf(c) : c \in Range(Selection.value)}

\* the services of S reachable from s by one or more `requires` edges that
\* stay within S
RECURSIVE ReachWithin(_, _, _)
ReachWithin(S, R, n) ==
    IF n = 0 THEN R
    ELSE ReachWithin(S, R \cup (S \cap UNION {conductor.requires[s] : s \in R}), n - 1)
CycleAmong(S) ==
    \E s \in S : s \in ReachWithin(S, S \cap conductor.requires[s], Cardinality(S))

\* C4: a lifecycle command whose selected containers have a cycle in their
\* dependency relation fails with the ordering error and runs no Play,
\* whatever its options.
C4_CycleRejected ==
    ( /\ phase = "done"
      /\ call.op \in LifecycleOps
      /\ Selection.error = NoError
      /\ CycleAmong(SelectedServices) ) =>
        /\ outcome.error.kind = "DependencyException"
        /\ play = None

\* the description, as far as construction reads it
Declaring(n) == {s \in ServiceNames : n \in Range(config.instances[s])}
DeclaredNames == {n \in ContainerNames : Declaring(n) # {}}
DeclaredTwice == {n \in ContainerNames : Cardinality(Declaring(n)) > 1}
RequiresUndeclared == {s \in ServiceNames : Undeclared \in Range(config.requires[s])}
WantsUndeclared == {s \in ServiceNames : Undeclared \in Range(config.wants_info[s])}
ConstructionOver == phase # "loaded"

\* C5: an instance name declared by two services makes construction fail
\* with the duplicate-identity error, which names both services; the name
\* stays registered to one container only, of the service that had it first.
C5_DuplicateNamesBoth ==
    (ConstructionOver /\ config.hasName /\ DeclaredTwice # {}) =>
        /\ phase = "failed"
        /\ conductor.error.what = "already defined"
        /\ \E n \in DeclaredTwice :
              /\ n \in Range(conductor.error.args)
              /\ Declaring(n) \subseteq Range(conductor.error.args)
              /\ ServiceOf(n) \in Declaring(n)
              /\ ServiceOf(n) = conductor.error.args[2]

\* C6, as claimed: a requires list that names an undeclared service makes
\* construction fail with the unknown-dependency error, and at that moment
\* no Container has been built.
C6_FailsBeforeContainers ==
    (ConstructionOver /\ RequiresUndeclared # {}) =>
        /\ phase = "failed"
        /\ conductor.error.what = "does not exist"
        /\ AllContainers = {}

\* C6, amended: a requires list that names an undeclared service makes
\* construction fail; the failure is the unknown-dependency error, naming
\* the undeclared service and the one that requires it, unless an earlier
\* check fails first (name missing, instance name declared twice, undeclared
\* wants_info target); when that error is raised, the Containers of all
\* services have been built, and no link variable has been merged and no
\* volumes_from edge added yet.
C6_FailsAfterContainers ==
    (ConstructionOver /\ RequiresUndeclared # {}) =>
        /\ phase = "failed"
        /\ (config.hasName /\ DeclaredTwice = {} /\ WantsUndeclared = {}) =>
              /\ conductor.error.kind = "EnvironmentConfigurationException"
              /\ conductor.error.what = "does not exist"
              /\ \E s \in RequiresUndeclared : conductor.error.args = <<Undeclared, s>>
        /\ conductor.error.what = "does not exist" =>
              /\ AllContainers = DeclaredNames
              /\ \A c \in AllContainers : conductor.env[c] = config.env[c]
              /\ \A s \in ServiceNames :
                    conductor.requires[s] \subseteq Range(config.requires[s])

C6_Witness ==
    /\ phase = "failed"
    /\ RequiresUndeclared # {}
    /\ conductor.error.what = "does not exist"
    /\ conductor.error.args[1] = Undeclared
    /\ AllContainers = ContainerNames

\* the volumes_from references of the containers
References ==
    {r \in AllContainers \X (ContainerNames \cup {Unknown}) :
        r[2] \in Range(config.volumes_from[r[1]])}
Overlap(c, v) == config.volumes[c] \cap config.volumes[v]
\* what the claim says of a reference from container c to the name v
Verdict(c, v) ==
    IF v \notin AllContainers THEN "unknown container"
    ELSE IF config.ship[v] # config.ship[c] THEN "not on the same host"
    ELSE IF Overlap(c, v) # {} THEN "volume conflicts"
    ELSE "accepted"
\* the reference an InvalidVolumeConfigurationException is about
Reported ==
    IF conductor.error.what = "volume conflicts"
    THEN <<conductor.error.args[1], conductor.error.args[2]>>
    ELSE <<conductor.error.args[2], conductor.error.args[1]>>
\* the checks of volumes_from were reached
VolumesChecked ==
    /\ ConstructionOver
    /\ conductor.error.kind \in {"none", "InvalidVolumeConfigurationException"}
DeclaredEdge(s, t) == t \in Range(config.requires[s])
AcceptedEdge(s, t) ==
    \E r \in References :
        Verdict(r[1], r[2]) = "accepted" /\ ServiceOf(r[1]) = s /\ ServiceOf(r[2]) = t

\* C7: construction fails on a volumes_from reference to an unknown name
\* (unknown-entity), else to a container of another ship (locality, also
\* when the mount paths overlap), else with overlapping mount paths
\* (volume-conflict, naming the paths); a failing reference adds no edge.
C7_VolumesFromErrors ==
    VolumesChecked =>
        /\ phase = "ready" <=> \A r \in References : Verdict(r[1], r[2]) = "accepted"
        /\ phase = "failed" =>
              /\ conductor.error.kind = "InvalidVolumeConfigurationException"
              /\ Reported \in References
              /\ conductor.error.what = Verdict(Reported[1], Reported[2])
              /\ conductor.error.what = "volume conflicts" =>
                    conductor.error.args[3] = Overlap(Reported[1], Reported[2])
        /\ \A s \in ServiceNames, t \in ServiceNames :
              Requires(s, t) => (DeclaredEdge(s, t) \/ AcceptedEdge(s, t))

\* a reference across ships between containers whose mount paths overlap,
\* from a service that does not declare the other as required
C7_Witness ==
    /\ phase = "failed"
    /\ conductor.error.what = "not on the same host"
    /\ Overlap(Reported[1], Reported[2]) # {}
    /\ ~Requires(ServiceOf(Reported[1]), ServiceOf(Reported[2]))

\* C8: when every volumes_from reference names a container of the same ship
\* with disjoint mount paths, construction succeeds and the requires
\* relation is the declared one plus one edge from the service of each
\* referring container to the service of the container referred to, however
\* often an edge is added.
C8_ImplicitEdges ==
    ( /\ VolumesChecked
      /\ \A r \in References : Verdict(r[1], r[2]) = "accepted" ) =>
        /\ phase = "ready"
        /\ \A s \in ServiceNames :
              conductor.requires[s] =
                  {t \in ServiceNames : DeclaredEdge(s, t)}
                  \cup {ServiceOf(r[2]) : r \in {q \in References : ServiceOf(q[1]) = s}}

\* two containers of one service refer to containers of one other service,
\* and another edge is both declared and added by a reference
C8_Witness ==
    /\ phase = "ready"
    /\ \E r \in References, q \in References :
          /\ r[1] # q[1]
          /\ ServiceOf(r[1]) = ServiceOf(q[1])
          /\ ServiceOf(r[2]) = ServiceOf(q[2])
          /\ ServiceOf(r[1]) # ServiceOf(r[2])
          /\ Requires(ServiceOf(r[1]), ServiceOf(r[2]))
          /\ DeclaredEdge(ServiceOf(r[1]), ServiceOf(r[2]))

Selected ==
    /\ phase = "done"
    /\ call.op = "_to_containers"
PassesFilters(c) ==
    /\ Truthy(call.container_filter) => Fnmatch(c, call.container_filter)
    /\ Truthy(call.ship_filter) => Fnmatch(conductor.containers[c].ship, call.ship_filter)
StrictlySorted(seq) == \A i \in 1..Len(seq), j \in 1..Len(seq) : i < j => StrLt(seq[i], seq[j])

\* C9: selecting the name of a service raises the selection-policy error
\* when expand_services is false, and gives the containers of the service
\* (those the filters let through), sorted by name, when it is true.
C9_ServiceSelection ==
    \A s \in ServiceNames :
        (Selected /\ call.things = <<s>> /\ s \notin AllContainers) =>
            IF call.expand_services
            THEN /\ outcome.error = NoError
                 /\ StrictlySorted(outcome.value)
                 /\ Range(outcome.value) =
                       {c \in ContainersOf(conductor, s) : PassesFilters(c)}
            ELSE /\ outcome.error.kind = "OrchestrationException"
                 /\ outcome.error.what = "is a service"
                 /\ outcome.value = <<>>

\* a service whose two containers were declared in descending order of
\* their names is selected without filters
C9_Witness ==
    /\ Selected
    /\ call.expand_services
    /\ call.container_filter = None
    /\ call.ship_filter = None
    /\ Len(call.things) = 1
    /\ call.things[1] \in ServiceNames
    /\ Len(outcome.value) = 2
    /\ outcome.value # ContainerList(conductor, call.things[1])

\* C10: the sequence a selection returns holds no container twice.
C10_NoDuplicates ==
    (Selected /\ outcome.error = NoError) =>
        \A i \in 1..Len(outcome.value), j \in 1..Len(outcome.value) :
            i # j => outcome.value[i] # outcome.value[j]

\* the services whose link variables a container of service s is given
Linked(s) == conductor.requires[s] \cup conductor.wants_info[s]
LinkKeys(s) == DOMAIN LinkVariables(conductor, s)

\* C11: after construction the environment of every container holds every
\* link variable of its own service and of every service that its service
\* requires, implicit volumes_from edges included, or wants info from.
C11_LinkVariablesVisible ==
    phase = "ready" =>
        \A c \in AllContainers :
            \A t \in Linked(ServiceOf(c)) \cup {ServiceOf(c)} :
                LinkKeys(t) \subseteq DOMAIN conductor.env[c]

\* the services given to container c that have a link variable named k
Givers(c, k) == {t \in Linked(ServiceOf(c)) : k \in LinkKeys(t)}

\* C12: the environment of a container is what it declared, then the link
\* variables of its own service, then those of each dependency, a later
\* value replacing an earlier one: a variable that dependencies have holds
\* the value of one of them, else a variable of the own service holds the
\* own value, else the variable holds the declared value.
C12_LaterMergeWins ==
    phase = "ready" =>
        \A c \in AllContainers :
            /\ DOMAIN conductor.env[c] =
                  DOMAIN config.env[c] \cup LinkKeys(ServiceOf(c))
                  \cup UNION {LinkKeys(t) : t \in Linked(ServiceOf(c))}
            /\ \A k \in DOMAIN conductor.env[c] :
                  IF Givers(c, k) # {}
                  THEN \E t \in Givers(c, k) :
                          conductor.env[c][k] = LinkVariables(conductor, t)[k]
                  ELSE IF k \in LinkKeys(ServiceOf(c))
                  THEN conductor.env[c][k] = LinkVariables(conductor, ServiceOf(c))[k]
                  ELSE conductor.env[c][k] = config.env[c][k]

\* instance "a" declares a variable that its own service and a dependency
\* have too, with three different values; a second container declares
\* nothing and gets the dependency's value as well
C12_Witness ==
    /\ phase = "ready"
    /\ \E k \in DOMAIN config.env["a"] :
          /\ k \in LinkKeys(ServiceOf("a"))
          /\ \E t \in Givers("a", k) :
                /\ t # ServiceOf("a")
                /\ conductor.env["a"][k] = LinkVariables(conductor, t)[k]
                /\ conductor.env["a"][k] # LinkVariables(conductor, ServiceOf("a"))[k]
                /\ conductor.env["a"][k] # config.env["a"][k]

Gathered ==
    /\ phase = "done"
    /\ call.op = "_gather_dependencies"
\* the set of containers a closure starts from
GatherInput == IF call.things = <<>> THEN AllContainers ELSE Range(call.things)
\* the containers of the services directly related to those of the containers S
DirectlyRelated(S, forward) ==
    UNION {ContainersOf(conductor, t) :
              t \in UNION {IF forward THEN conductor.requires[ServiceOf(c)]
                                      ELSE conductor.needed_for[ServiceOf(c)] : c \in S}}
\* the least set that includes S and the directly related containers of
\* each of its members
RECURSIVE LeastClosure(_, _, _)
LeastClosure(S, forward, n) ==
    IF n = 0 THEN S
    ELSE LeastClosure(S \cup DirectlyRelated(S, forward), forward, n - 1)

\* C13: the closure of a set of containers is the least set that includes
\* it (all containers when it is empty) and, with each member, the
\* containers of the services directly related to the member's service in
\* the direction asked for.
C13_ClosureFixedPoint ==
    Gathered =>
        Range(outcome.value) =
            LeastClosure(GatherInput, call.forward, Cardinality(ContainerNames))

\* the services that a service with containers requires or wants info from
\* when the link variables are merged
UsedAsDependency ==
    UNION {Linked(s) : s \in {ServiceOf(c) : c \in AllContainers}}

\* C21: construction derives the link variables of a service for use as a
\* dependency once if a service requires it or wants info from it, and
\* never otherwise, whatever the number of those services and of their
\* containers, and also when the service has no link variable.
C21_DerivedOnce ==
    phase = "ready" =>
        \A t \in ServiceNames :
            conductor.derived[t] = IF t \in UsedAsDependency THEN 1 ELSE 0

\* a service without link variables is a dependency of two services, one
\* of which has two containers
C21_Witness ==
    /\ phase = "ready"
    /\ \E t \in ServiceNames, s \in ServiceNames, u \in ServiceNames :
          /\ LinkKeys(t) = {}
          /\ s # u
          /\ t \in Linked(s) \cap Linked(u)
          /\ Cardinality(ContainersOf(conductor, s)) = 2
          /\ conductor.derived[t] = 1

\* the names given to the ordering resolve to containers
OrderedSelection ==
    /\ phase = "done"
    /\ call.op = "_ordered_containers"
    /\ call.things # <<>>
    /\ ParseThings(conductor, call.things, call.expand_services, 1, <<>>).error = NoError

\* C15: in an acyclic environment the ordering of a non-empty selection
\* returns a sequence, in both directions; it raises the dependency error
\* only when the relation has a cycle.
C15_FailsOnlyOnCycle ==
    (OrderedSelection /\ Acyclic) => outcome.error = NoError

\* a lifecycle command was told to follow the dependencies, and its names
\* resolve to containers
Following ==
    /\ phase = "done"
    /\ call.op \in LifecycleOps
    /\ call.with_dependencies
    /\ Selection.error = NoError
ForwardOps == {"start", "pull", "clean"}
BackwardOps == {"stop", "restart", "kill"}
PlayOf(op) ==
    CASE op = "start" -> "Start" [] op = "pull" -> "Pull" [] op = "clean" -> "Clean"
      [] op = "stop" -> "Stop" [] op = "restart" -> "Restart" [] op = "kill" -> "Kill"
\* the containers selected: all of them when no name is given
SelectedContainers ==
    IF Selection.value = <<>> THEN AllContainers ELSE Range(Selection.value)
\* the containers of the services that the services of S transitively require
DependenciesOf(S) ==
    {d \in AllContainers :
        \E c \in S : ServiceOf(d) \in TransitivelyRequired(ServiceOf(c))}
\* the containers of the services that transitively require the services of S
DependentsOf(S) ==
    {d \in AllContainers :
        \E c \in S : ServiceOf(c) \in TransitivelyRequired(ServiceOf(d))}

\* C14: told to follow the dependencies in an acyclic environment, start,
\* pull and clean run their Play on the selection and its dependencies,
\* every dependency before its dependents; stop, restart and kill run
\* theirs on the selection and its dependents, every dependent before its
\* dependencies.
C14_DirectionOfCommands ==
    (Following /\ Acyclic /\ call.op \in ForwardOps \cup BackwardOps) =>
        /\ outcome.error = NoError
        /\ play = PlayOf(call.op)
        /\ Range(outcome.value) =
              SelectedContainers \cup
                  (IF call.op \in ForwardOps THEN DependenciesOf(SelectedContainers)
                                             ELSE DependentsOf(SelectedContainers))
        /\ \A c \in Range(outcome.value), d \in Range(outcome.value) :
              ServiceOf(d) \in TransitivelyRequired(ServiceOf(c)) =>
                  IF call.op \in ForwardOps THEN Before(outcome.value, d, c)
                                            ELSE Before(outcome.value, c, d)

\* C16: every invocation of the ordering either ends it, with a sequence or
\* with the dependency error, or calls itself with a strictly shorter
\* pending list; an ordering that began ends.
C16_OrderingTerminates ==
    /\ [][phase = "ordering" =>
            \/ /\ phase' = "done"
               /\ outcome'.error.kind \in {"none", "DependencyException"}
            \/ /\ phase' = "ordering"
               /\ Len(outcome'.pending) < Len(outcome.pending)]_vars
    /\ (phase = "ordering") ~> (phase = "done")

\* in an environment with a cycle a round placed some containers and left
\* others waiting, none of which the next round can place
C16_Witness ==
    /\ phase = "ordering"
    /\ ~Acyclic
    /\ outcome.value # <<>>
    /\ Len(OrderRound(conductor, outcome.pending, 1, outcome.value, <<>>,
                      call.forward).wait) = Len(outcome.pending)

\* C17: after construction service t is needed by service s exactly when s
\* requires t, whether the edge was declared or comes from volumes_from.
C17_BackwardIsInverse ==
    Constructed =>
        \A s \in ServiceNames, t \in ServiceNames :
            (s \in conductor.needed_for[t]) <=> (t \in conductor.requires[s])

\* service s wants info from another service t
Wants(s, t) == s # t /\ t \in conductor.wants_info[s]

\* C18, as claimed: when service s wants info from service t, the forward
\* closure of the containers of s includes the containers of t, and the
\* forward ordering of all containers places those of s after those of t.
C18_WantsInfoOrders ==
    \A s \in ServiceNames, t \in ServiceNames :
        Wants(s, t) =>
            /\ (Gathered /\ call.forward /\ GatherInput = ContainersOf(conductor, s)) =>
                  ContainersOf(conductor, t) \subseteq Range(outcome.value)
            /\ (OrderedAll(TRUE) /\ outcome.error = NoError) =>
                  \A c \in ContainersOf(conductor, s), d \in ContainersOf(conductor, t) :
                      Before(outcome.value, d, c)

\* C18, amended: when service s wants info from service t, the containers
\* of s are given the link variables of t, and that is all: a closure is
\* the set given plus the containers of the services that those of its
\* members require (forward) or are needed for (backward), and where no
\* service requires another the ordering returns the selected containers in
\* the order of their names.
C18_WantsInfoLinksOnly ==
    /\ Constructed =>
          \A s \in ServiceNames, t \in ServiceNames :
              Wants(s, t) =>
                  \A c \in ContainersOf(conductor, s) :
                      LinkKeys(t) \subseteq DOMAIN conductor.env[c]
    /\ Gathered =>
          Range(outcome.value) = GatherInput \cup DirectlyRelated(GatherInput, call.forward)
    /\ ( /\ phase = "done"
         /\ call.op = "_ordered_containers"
         /\ \A s \in ServiceNames : conductor.requires[s] = {} ) =>
            LET parsed == ParseThings(conductor, call.things, call.expand_services, 1, <<>>)
            IN  IF parsed.error # NoError THEN outcome = Raised(parsed.error)
                ELSE /\ outcome.error = NoError
                     /\ StrictlySorted(outcome.value)
                     /\ Range(outcome.value) =
                           (IF parsed.value = <<>> THEN AllContainers
                                                  ELSE Range(parsed.value))

\* the forward closure of the containers of a service that wants info from
\* another one and requires none leaves out the containers of that one
C18_Witness ==
    /\ Gathered
    /\ call.forward
    /\ \E s \in ServiceNames, t \in ServiceNames :
          /\ Wants(s, t)
          /\ conductor.requires[s] = {}
          /\ GatherInput = ContainersOf(conductor, s)
          /\ Range(outcome.value) = ContainersOf(conductor, s)
          /\ \A c \in ContainersOf(conductor, s) : LinkKeys(t) \subseteq DOMAIN conductor.env[c]

\* C19: a wants_info list that names an undeclared service makes
\* construction fail with the unknown-dependency error, which names the
\* undeclared service and the service that declares the list, whatever the
\* requires lists hold.
C19_UnknownWantsInfo ==
    ( /\ ConstructionOver
      /\ config.hasName
      /\ DeclaredTwice = {}
      /\ RequiresUndeclared = {}
      /\ WantsUndeclared # {} ) =>
        /\ phase = "failed"
        /\ conductor.error.kind = "EnvironmentConfigurationException"
        /\ conductor.error.what = "does not exist"
        /\ \E s \in WantsUndeclared : conductor.error.args = <<Undeclared, s>>

\* C20: the containers a lifecycle command runs its Play on match the
\* container-name pattern and the ship-name pattern it was given, with and
\* without the dependencies followed.
C20_FiltersAlwaysApplied ==
    (phase = "done" /\ call.op \in LifecycleOps /\ play # None) =>
        \A c \in Range(outcome.value) : PassesFilters(c)

\* the containers that an invocation of _order_dependencies appended to
\* the ordered list it was given
PlacedBy(before, after) == SubSeq(after, Len(before) + 1, Len(after))
\* the members of seq that are in S, in the order of seq
Restricted(seq, S) == SelectSeq(seq, LAMBDA c : c \in S)

\* C22: the ordering is stable and deterministic. Every invocation of
\* _order_dependencies gets its pending list in name order, keeps what was
\* ordered before, appends the containers it can place in the order they
\* have in the pending list and passes on the others in that order; the
\* sequence returned is the one that the environment and the names given
\* determine.
C22_StableOrder ==
    [][phase = "ordering" =>
         /\ StrictlySorted(outcome.pending)
         /\ outcome'.error = NoError =>
               LET placed == PlacedBy(outcome.value, outcome'.value)
               IN  /\ Len(outcome.value) <= Len(outcome'.value)
                   /\ SubSeq(outcome'.value, 1, Len(outcome.value)) = outcome.value
                   /\ placed = Restricted(outcome.pending, Range(placed))
                   /\ phase' = "ordering" =>
                         outcome'.pending =
                             Restricted(outcome.pending,
                                        Range(outcome.pending) \ Range(placed))
                   /\ phase' = "done" =>
                         outcome' = OrderedContainers(conductor, call.things,
                                                      call.expand_services,
                                                      call.forward)]_vars

\* a forward ordering returned with two containers of one service that
\* waited for a container of a required service: placed in one round, in
\* name order
C22_Witness ==
    /\ Ordered(TRUE)
    /\ outcome.error = NoError
    /\ \E x \in Range(outcome.value), y \in Range(outcome.value) :
          /\ ServiceOf(x) = ServiceOf(y)
          /\ StrLt(x, y)
          /\ \E z \in Range(outcome.value) :
                /\ ServiceOf(z) # ServiceOf(x)
                /\ Requires(ServiceOf(x), ServiceOf(z))
          /\ Before(outcome.value, x, y)

\* the closure that _ordered_containers hands to _order_dependencies
ClosureGiven ==
    GatherDependencies(conductor,
                       Range(ToContainers(conductor, call.things, call.expand_services,
                                          None, None).value),
                       call.forward)
\* seq lists every member of S once and nothing else
PermutationOf(seq, S) == Range(seq) = S /\ Len(seq) = Cardinality(S)

\* C23: every invocation of _order_dependencies sends each container of
\* its pending list to exactly one of the ordered list and the wait list
\* (all of them wait when it raises), and an ordering that returns gives a
\* permutation of the closure it was given: every container of the closure
\* once, and no other container.
C23_PermutationOfClosure ==
    [][phase = "ordering" =>
         /\ outcome'.error # NoError => outcome'.error.args = outcome.pending
         /\ outcome'.error = NoError =>
               LET placed == PlacedBy(outcome.value, outcome'.value)
                   wait == IF phase' = "ordering" THEN outcome'.pending ELSE <<>>
               IN  /\ Range(placed) \cup Range(wait) = Range(outcome.pending)
                   /\ Len(placed) + Len(wait) = Len(outcome.pending)
                   /\ phase' = "done" => PermutationOf(outcome'.value, ClosureGiven)]_vars

\* an ordering of a selection returned after more than one round, with
\* containers that the closure added to the selection
C23_Witness ==
    /\ phase = "done"
    /\ call.op = "_ordered_containers"
    /\ call.things # <<>>
    /\ outcome.error = NoError
    /\ Range(call.things) \cap AllContainers # {}
    /\ Range(outcome.value) \ Range(call.things) # {}
    /\ Len(outcome.value) >= 3
    /\ \E x \in Range(outcome.value), z \in Range(outcome.value) :
          /\ ServiceOf(z) # ServiceOf(x)
          /\ IF call.forward THEN Requires(ServiceOf(x), ServiceOf(z))
                              ELSE Requires(ServiceOf(z), ServiceOf(x))
          /\ Before(outcome.value, z, x)

\* C24: restart told to follow the dependencies hands the Restart play a
\* sequence in which every container of a service that the service of a
\* requested container requires comes before that container.
C24_RestartDependenciesFirst ==
    (Following /\ call.op = "restart" /\ outcome.error = NoError) =>
        /\ play = "Restart"
        /\ \A c \in SelectedContainers, d \in AllContainers :
              (Requires(ServiceOf(c), ServiceOf(d)) /\ ServiceOf(c) # ServiceOf(d)) =>
                  Before(outcome.value, d, c)

Logged == phase = "done" /\ call.op = "logs"
\* the names resolve and the filters leave exactly one container
OneContainer ==
    /\ Selection.error = NoError
    /\ Cardinality(Range(Selection.value)) = 1

\* C25 as stated: unless the selection after filtering resolves to exactly
\* one container, logs fails with the parameter error and has called no
\* backend.
C25_ParameterErrorUnlessOne ==
    (Logged /\ ~OneContainer) =>
        /\ outcome.error.kind = "ParameterException"
        /\ play = None

\* C25: unless the selection after filtering resolves to exactly one
\* container, logs fails and has called no backend; it fails with the error
\* of the selection when a name does not resolve, and with the parameter
\* error otherwise.
C25_FailsUnlessOne ==
    (Logged /\ ~OneContainer) =>
        /\ play = None
        /\ outcome.error.kind =
              IF Selection.error # NoError THEN Selection.error.kind
                                          ELSE "ParameterException"
        /\ outcome.error.kind \in {"OrchestrationException", "ParameterException"}

\* logs of a service with two containers that a filter lets through:
\* refused with the parameter error, without a backend call
C25_Witness ==
    /\ Logged
    /\ Truthy(call.container_filter)
    /\ Selection.error = NoError
    /\ Cardinality(Range(Selection.value)) = 2
    /\ outcome.error.kind = "ParameterException"
    /\ play = None

Rendered == phase = "done" /\ call.op = "deptree"
\* the number of lines of a tree that print the service s
TimesPrinted(tree, s) ==
    Cardinality({i \in 1..Len(tree.lines) : tree.lines[i].name = s})

\* C26: for every environment that construction accepts, deptree of names
\* that resolve prints its trees to the end, in recursive and in
\* non-recursive mode, and in non-recursive mode no service is printed more
\* than once beneath a root.
C26_DeptreeTerminates ==
    (Rendered /\ ToServices(conductor, call.things).error = NoError) =>
        /\ outcome.error = NoError
        /\ ~call.recursive =>
              \A i \in 1..Len(outcome.value), s \in ServiceNames :
                  TimesPrinted(outcome.value[i], s) <= 1

====
